---- MODULE Spec2Model ----
(***************************************************************************)
(* AI Tic-Tac-Toe (src/tic_tac_toe.py): the game logic (check_winner,      *)
(* available_moves, evaluate_board, minimax with alpha-beta pruning) as    *)
(* operators, and the TicTacToeApp event handlers as actions.              *)
(*                                                                         *)
(* Encoding of Python values:                                              *)
(*   a cell / a winner : "X", "O", 'Draw' is "Draw", None is None          *)
(*   an absent move    : NoMove  (best_move = None)                        *)
(*   an absent depth   : NoDepth (depth = None)                            *)
(*   math.inf          : Inf, an integer above every score minimax can     *)
(*                       produce (|score| <= 25)                           *)
(* minimax works on one mutable list; the operators thread the board       *)
(* through every call and return it with the result, so that the undo of   *)
(* an exploratory placement is a modelled step and not an assumption.      *)
(***************************************************************************)
EXTENDS Integers, Sequences, FiniteSets, TLC

\* ------------------------------------------------------------------ bounds
\* scheduled-but-not-yet-fired ai_move callbacks (master.after) kept at once
MaxPending == 1
\* results on the scoreboard after which no new game is started
MaxGames == 1
\* the search harness draws boards with at most this many empty cells
MaxEmpty == 3

\* --------------------------------------------------------------- constants
None == "None"
NoMove == -1
NoDepth == -1
WinScore == 10
MediumDepth == 2

\* mutant of Inf: the win score used as the sentinel of the loops
Inf_win_score == WinScore

Inf == 1000

marks == {"X", "O"}
other(m) == IF m = "X" THEN "O" ELSE "X"
cells == 0..8
difficulties == {"Easy", "Medium", "Hard"}

WIN_LINES ==
    << <<0,1,2>>, <<3,4,5>>, <<6,7,8>>,
       <<0,3,6>>, <<1,4,7>>, <<2,5,8>>,
       <<0,4,8>>, <<2,4,6>> >>

EmptyBoard == [i \in cells |-> None]

\* ------------------------------------------------------------- game logic
\* board[a] and board[a]==board[b]==board[c]
three(board, a, b, c) ==
    board[a] # None /\ board[a] = board[b] /\ board[b] = board[c]

\* mutant of check_winner: a full board without a line is not a 'Draw'
check_winner_never_draw(board) ==
    IF three(board, 0, 1, 2) THEN board[0]
    ELSE IF three(board, 3, 4, 5) THEN board[3]
    ELSE IF three(board, 6, 7, 8) THEN board[6]
    ELSE IF three(board, 0, 3, 6) THEN board[0]
    ELSE IF three(board, 1, 4, 7) THEN board[1]
    ELSE IF three(board, 2, 5, 8) THEN board[2]
    ELSE IF three(board, 0, 4, 8) THEN board[0]
    ELSE IF three(board, 2, 4, 6) THEN board[2]
    ELSE None

\* mutant of check_winner: the two diagonals left out of the lines
check_winner_no_diagonals(board) ==
    IF three(board, 0, 1, 2) THEN board[0]
    ELSE IF three(board, 3, 4, 5) THEN board[3]
    ELSE IF three(board, 6, 7, 8) THEN board[6]
    ELSE IF three(board, 0, 3, 6) THEN board[0]
    ELSE IF three(board, 1, 4, 7) THEN board[1]
    ELSE IF three(board, 2, 5, 8) THEN board[2]
    ELSE IF \A i \in cells : board[i] # None THEN "Draw"
    ELSE None

\* the loop over WIN_LINES, unrolled in the order of WIN_LINES: the mark of
\* the first complete line, else 'Draw' on a full board, else None
check_winner(board) ==
    IF three(board, 0, 1, 2) THEN board[0]
    ELSE IF three(board, 3, 4, 5) THEN board[3]
    ELSE IF three(board, 6, 7, 8) THEN board[6]
    ELSE IF three(board, 0, 3, 6) THEN board[0]
    ELSE IF three(board, 1, 4, 7) THEN board[1]
    ELSE IF three(board, 2, 5, 8) THEN board[2]
    ELSE IF three(board, 0, 4, 8) THEN board[0]
    ELSE IF three(board, 2, 4, 6) THEN board[2]
    ELSE IF \A i \in cells : board[i] # None THEN "Draw"
    ELSE None

\* [i for i,v in enumerate(board) if v is None], ascending
available_moves(board) ==
    SelectSeq(<<0, 1, 2, 3, 4, 5, 6, 7, 8>>, LAMBDA i : board[i] = None)

\* line.count(m)
line_count(board, l, m) == Cardinality({j \in 1..3 : board[l[j]] = m})

RECURSIVE line_scores(_, _, _, _)
line_scores(board, ai, human, k) ==
    IF k > Len(WIN_LINES) THEN 0
    ELSE LET l == WIN_LINES[k]
             up == IF line_count(board, l, ai) = 2 /\ line_count(board, l, None) = 1
                   THEN 3 ELSE 0
             down == IF line_count(board, l, human) = 2 /\ line_count(board, l, None) = 1
                     THEN 3 ELSE 0
         IN up - down + line_scores(board, ai, human, k + 1)

\* mutant of evaluate_board: the centre cell is not scored
evaluate_board_no_centre(board, ai, human) == line_scores(board, ai, human, 1)

evaluate_board(board, ai, human) ==
    (IF board[4] = ai THEN 1 ELSE IF board[4] = human THEN -1 ELSE 0)
        + line_scores(board, ai, human, 1)

max(a, b) == IF a >= b THEN a ELSE b
min(a, b) == IF a <= b THEN a ELSE b

\* mutants of cutoff: the comparison turned round; the test off by one
cutoff_flipped(alpha, beta) == alpha <= beta
cutoff_eager(alpha, beta) == beta <= alpha + 1

\* the pruning test of both loops: if beta <= alpha: break
cutoff(alpha, beta) == beta <= alpha

\* mutants of improves_max and improves_min: the comparison turned round
improves_max_reversed(score, best_score) == score < best_score
improves_min_reversed(score, best_score) == score > best_score

\* mutant of improves_max: a move of equal score replaces the incumbent
improves_max_or_ties(score, best_score) == score >= best_score

\* if score > best_score (maximizing), if score < best_score (minimizing)
improves_max(score, best_score) == score > best_score
improves_min(score, best_score) == score < best_score

\* None if depth is None else depth-1
next_depth(depth) == IF depth = NoDepth THEN NoDepth ELSE depth - 1

\* mutant of undo: the placement is left on the board
undo_skipped(board, mv) == board

\* board[mv] = None after the recursive call returns
undo(board, mv) == [board EXCEPT ![mv] = None]

\* the value minimax returns, with the list it was working on
\* what a call hands back: the (score, move) it returns, the list it was
\* given as it leaves it, and the most calls that were active at once
\* below it (0 when it returned without recursing)
SearchResult(score, move, board, deep) ==
    [score |-> score, move |-> move, board |-> board, deep |-> deep]

RECURSIVE minimax(_, _, _, _, _, _, _)
RECURSIVE max_loop(_, _, _, _, _, _, _, _, _, _)
RECURSIVE min_loop(_, _, _, _, _, _, _, _, _, _)

minimax(board, maximizing, ai, human, depth, alpha, beta) ==
    LET winner == check_winner(board) IN
    IF winner = ai THEN SearchResult(WinScore, NoMove, board, 0)
    ELSE IF winner = human THEN SearchResult(-WinScore, NoMove, board, 0)
    ELSE IF winner = "Draw" THEN SearchResult(0, NoMove, board, 0)
    ELSE IF depth # NoDepth /\ depth <= 0
         THEN SearchResult(evaluate_board(board, ai, human), NoMove, board, 0)
    ELSE IF maximizing
         THEN max_loop(board, available_moves(board), ai, human, depth,
                       alpha, beta, -Inf, NoMove, 0)
         ELSE min_loop(board, available_moves(board), ai, human, depth,
                       alpha, beta, Inf, NoMove, 0)

\* the maximizing for-loop, from the move at the head of moves on
max_loop(board, moves, ai, human, depth, alpha, beta, best_score, best_move, deep) ==
    IF moves = <<>> THEN SearchResult(best_score, best_move, board, deep)
    ELSE LET mv == Head(moves)
             r == minimax([board EXCEPT ![mv] = ai], FALSE, ai, human,
                          next_depth(depth), alpha, beta)
             restored == undo(r.board, mv)
             better == improves_max(r.score, best_score)
             new_score == IF better THEN r.score ELSE best_score
             new_move == IF better THEN mv ELSE best_move
             new_alpha == max(alpha, new_score)
             new_deep == max(deep, 1 + r.deep)
         IN IF cutoff(new_alpha, beta)
            THEN SearchResult(new_score, new_move, restored, new_deep)
            ELSE max_loop(restored, Tail(moves), ai, human, depth,
                          new_alpha, beta, new_score, new_move, new_deep)

\* the minimizing for-loop
min_loop(board, moves, ai, human, depth, alpha, beta, best_score, best_move, deep) ==
    IF moves = <<>> THEN SearchResult(best_score, best_move, board, deep)
    ELSE LET mv == Head(moves)
             r == minimax([board EXCEPT ![mv] = human], TRUE, ai, human,
                          next_depth(depth), alpha, beta)
             restored == undo(r.board, mv)
             better == improves_min(r.score, best_score)
             new_score == IF better THEN r.score ELSE best_score
             new_move == IF better THEN mv ELSE best_move
             new_beta == min(beta, new_score)
             new_deep == max(deep, 1 + r.deep)
         IN IF cutoff(alpha, new_beta)
            THEN SearchResult(new_score, new_move, restored, new_deep)
            ELSE min_loop(restored, Tail(moves), ai, human, depth,
                          alpha, new_beta, new_score, new_move, new_deep)

\* mutant of random_choice: a random cell instead of a random legal move
random_choice_any_cell(moves) == cells

\* the set random.choice(moves) draws from
random_choice(moves) == {moves[j] : j \in 1..Len(moves)}

\* mutant of ai_search: Hard runs the depth-limited search of Medium
ai_search_always_limited(board, diff, ai, human) ==
    minimax(board, TRUE, ai, human, MediumDepth, -Inf, Inf)

\* mutant of ai_search: the search is called with depth=0
ai_search_no_lookahead(board, diff, ai, human) ==
    minimax(board, TRUE, ai, human, 0, -Inf, Inf)

\* the search ai_move runs in Medium (depth=2) and in Hard (no depth)
ai_search(board, diff, ai, human) ==
    minimax(board, TRUE, ai, human,
            IF diff = "Medium" THEN MediumDepth ELSE NoDepth, -Inf, Inf)

\* ai_move's difficulty dispatch: the moves mv can end up holding
choose_move(board, diff, ai, human) ==
    IF diff = "Easy" THEN random_choice(available_moves(board))
    ELSE LET r == ai_search(board, diff, ai, human)
         IN IF r.move = NoMove THEN random_choice(available_moves(board))
            ELSE {r.move}

\* ------------------------------------------------------------------ state
VARIABLES
    board,          \* self.board
    player_symbol,  \* self.player_symbol
    ai_symbol,      \* self.ai_symbol
    human_starts,   \* self.human_starts
    game_over,      \* self.game_over
    human_score,    \* self.human_score
    ai_score,       \* self.ai_score
    draws,          \* self.draws
    difficulty,     \* self.difficulty (tk.StringVar)
    pending,        \* ai_move callbacks scheduled with master.after, not yet run
    \* one call of minimax from outside the application (SpecSearch)
    maximizing,     \* its arguments; board, ai_symbol and player_symbol are
    depth,          \*   the other three
    alpha,
    beta,
    result,         \* the (score, move) it returned, NoResult before
    deepest,        \* the most calls of minimax that were active at once
                    \*   below it
    pc,             \* "app": no such call; "call": about to be made; "done"
    \* a simulated game between two engines (SpecSim)
    turn,           \* the mark to move
    level           \* the difficulty each mark plays at

app_vars == <<board, player_symbol, ai_symbol, human_starts, game_over,
              human_score, ai_score, draws, difficulty, pending>>
call_vars == <<maximizing, depth, alpha, beta, result, deepest, pc>>
sim_vars == <<turn, level>>
harness_vars == <<call_vars, sim_vars>>
vars == <<app_vars, harness_vars>>

scores == <<human_score, ai_score, draws>>
symbols == <<player_symbol, ai_symbol>>

mark_count(b, m) == Cardinality({i \in cells : b[i] = m})

\* __init__: the fields, then reset_board() with human_starts = True
AppInit ==
    /\ board = EmptyBoard
    /\ player_symbol = "X"
    /\ ai_symbol = "O"
    /\ human_starts = TRUE
    /\ game_over = FALSE
    /\ human_score = 0
    /\ ai_score = 0
    /\ draws = 0
    /\ difficulty = "Hard"
    /\ pending = 0

NoResult == [score |-> 0, move |-> NoMove]

\* no call of minimax from outside the application is in progress
NoCall ==
    /\ maximizing = TRUE
    /\ depth = NoDepth
    /\ alpha = -Inf
    /\ beta = Inf
    /\ result = NoResult
    /\ deepest = 0

\* no simulated game
NoSim ==
    /\ turn = None
    /\ level = [m \in marks |-> "Hard"]

Init == AppInit /\ NoCall /\ pc = "app" /\ NoSim

\* ---------------------------------------------------------------- handlers
\* mutant of finish_game: self.game_over is not set
finish_game_leaves_game_open(winner) ==
    /\ UNCHANGED game_over
    /\ IF winner = "Draw"
       THEN draws' = draws + 1 /\ UNCHANGED <<human_score, ai_score>>
       ELSE IF winner = player_symbol
            THEN human_score' = human_score + 1 /\ UNCHANGED <<ai_score, draws>>
            ELSE ai_score' = ai_score + 1 /\ UNCHANGED <<human_score, draws>>

\* mutant of finish_game: a won game is credited to the other side
finish_game_miscredited(winner) ==
    /\ game_over' = TRUE
    /\ IF winner = "Draw"
       THEN draws' = draws + 1 /\ UNCHANGED <<human_score, ai_score>>
       ELSE IF winner = player_symbol
            THEN ai_score' = ai_score + 1 /\ UNCHANGED <<human_score, draws>>
            ELSE human_score' = human_score + 1 /\ UNCHANGED <<ai_score, draws>>

finish_game(winner) ==
    /\ game_over' = TRUE
    /\ IF winner = "Draw"
       THEN draws' = draws + 1 /\ UNCHANGED <<human_score, ai_score>>
       ELSE IF winner = player_symbol
            THEN human_score' = human_score + 1 /\ UNCHANGED <<ai_score, draws>>
            ELSE ai_score' = ai_score + 1 /\ UNCHANGED <<human_score, draws>>

\* check_state on the board just written (board'); pend is the number of
\* callbacks outstanding when it runs
check_state(player, pend) ==
    LET winner == check_winner(board') IN
    IF winner # None
    THEN finish_game(winner) /\ pending' = pend
    ELSE IF ~player
         THEN UNCHANGED <<game_over, scores>> /\ pending' = pend
         ELSE /\ pending' = pend + 1
              /\ UNCHANGED <<game_over, scores>>

\* reset_board, reading the human_starts its caller leaves behind
reset_board ==
    /\ human_score + ai_score + draws < MaxGames
    /\ board' = EmptyBoard
    /\ game_over' = FALSE
    /\ IF human_starts'
       THEN pending' = pending
       ELSE pending' = pending + 1

\* the Restart button, and the Clear Board button (bound to reset_board)
restart_same ==
    /\ UNCHANGED <<symbols, human_starts, scores, difficulty, harness_vars>>
    /\ reset_board

reset_scores ==
    /\ human_score' = 0
    /\ ai_score' = 0
    /\ draws' = 0
    /\ UNCHANGED <<board, symbols, human_starts, game_over, difficulty, pending,
                   harness_vars>>

on_symbol_change(sym) ==
    /\ player_symbol' = sym
    /\ ai_symbol' = IF sym = "X" THEN "O" ELSE "X"
    /\ UNCHANGED <<human_starts, scores, difficulty, harness_vars>>
    /\ reset_board

on_start_change(start) ==
    /\ human_starts' = start
    /\ UNCHANGED <<symbols, scores, difficulty, harness_vars>>
    /\ reset_board

\* a difficulty radio button: sets the StringVar, runs no command. The user
\* picks the difficulty between games, while the board is empty.
set_difficulty(d) ==
    /\ board = EmptyBoard
    /\ difficulty' = d
    /\ UNCHANGED <<board, symbols, human_starts, game_over, scores, pending,
                   harness_vars>>

on_click(i) ==
    /\ ~(game_over \/ board[i] # None)
    /\ board' = [board EXCEPT ![i] = player_symbol]
    /\ UNCHANGED <<symbols, human_starts, difficulty, harness_vars>>
    /\ check_state(TRUE, pending)

\* mutant of ai_move: `if self.game_over: return` is missing
ai_move_after_game_over ==
    /\ pending > 0
    /\ UNCHANGED <<symbols, human_starts, difficulty, harness_vars>>
    /\ IF available_moves(board) = <<>>
       THEN /\ pending' = pending - 1
            /\ UNCHANGED <<board, game_over, scores>>
       ELSE \E mv \in choose_move(board, difficulty, ai_symbol, player_symbol) :
               /\ board' = [board EXCEPT ![mv] = ai_symbol]
               /\ pending' = pending - 1
               /\ UNCHANGED <<game_over, scores>>

\* a scheduled callback fires
ai_move ==
    /\ pending > 0
    /\ UNCHANGED <<symbols, human_starts, difficulty, harness_vars>>
    /\ IF game_over
       THEN /\ pending' = pending - 1
            /\ UNCHANGED <<board, game_over, scores>>
       ELSE IF available_moves(board) = <<>>
            THEN /\ finish_game("Draw")
                 /\ pending' = pending - 1
                 /\ UNCHANGED board
            ELSE \E mv \in choose_move(board, difficulty, ai_symbol, player_symbol) :
                    /\ board' = [board EXCEPT ![mv] = ai_symbol]
                    /\ check_state(FALSE, pending - 1)

\* the step leaves no more than MaxPending callbacks outstanding
capped == pending' <= MaxPending

\* the events of the running application
Next ==
    \/ \E i \in cells : on_click(i) /\ capped
    \/ ai_move
    \/ restart_same /\ capped
    \/ reset_scores
    \/ \E sym \in marks : on_symbol_change(sym) /\ capped
    \/ \E start \in BOOLEAN : on_start_change(start) /\ capped
    \/ \E d \in difficulties : set_difficulty(d)

Spec == Init /\ [][Next]_vars

\* ------------------------------------------------- one game, turn by turn
\* The application as above, with a user who picks symbol and starting side
\* before the first mark, clicks only when no ai_move callback is
\* outstanding, and leaves the difficulty at its initial 'Hard'.
alt_click(i) == pending = 0 /\ on_click(i)

alt_symbol_change(sym) ==
    board = EmptyBoard /\ pending = 0 /\ on_symbol_change(sym)

alt_start_change(start) ==
    board = EmptyBoard /\ pending = 0 /\ on_start_change(start)

NextAlt ==
    \/ \E i \in cells : alt_click(i)
    \/ ai_move
    \/ \E sym \in marks : alt_symbol_change(sym)
    \/ \E start \in BOOLEAN : alt_start_change(start)

SpecAlt == Init /\ [][NextAlt]_vars

\* ------------------------------------------- one game, any interleaving
\* The state reset_board leaves, for any symbol, starting side and
\* difficulty chosen before it; then clicks and callbacks in any order and
\* no further reset. Every callback is scheduled by a click that placed a
\* mark, so at most nine are ever outstanding.
InitGame ==
    /\ board = EmptyBoard
    /\ player_symbol \in marks
    /\ ai_symbol = other(player_symbol)
    /\ human_starts \in BOOLEAN
    /\ game_over = FALSE
    /\ human_score = 0
    /\ ai_score = 0
    /\ draws = 0
    /\ difficulty \in difficulties
    /\ pending = IF human_starts THEN 0 ELSE 1
    /\ NoCall
    /\ pc = "app"
    /\ NoSim

NextGame ==
    \/ \E i \in cells : on_click(i)
    \/ ai_move

SpecGame == InitGame /\ [][NextGame]_vars

\* what every ai_move does to the callbacks outstanding: the one that
\* fired is gone
callback_fires ==
    /\ pending > 0
    /\ pending' = pending - 1

\* the human clicks an empty cell as long as the game is open, and Tk runs
\* every callback registered with master.after
FairSpecGame ==
    /\ SpecGame
    /\ WF_vars(\E i \in cells : on_click(i))
    /\ WF_pending(callback_fires)

\* ------------------------------------------------ engine against engine
\* Two engines play one game from the empty board; each picks its moves as
\* ai_move does, as maximizer for its own mark, at its own difficulty.
InitSim ==
    /\ AppInit
    /\ NoCall
    /\ pc = "sim"
    /\ turn \in marks
    /\ level \in [marks -> difficulties]

sim_move ==
    /\ pc = "sim"
    /\ check_winner(board) = None
    /\ \E mv \in choose_move(board, level[turn], turn, other(turn)) :
            board' = [board EXCEPT ![mv] = turn]
    /\ result' = IF level[turn] = "Easy" THEN NoResult
                 ELSE LET r == ai_search(board, level[turn], turn, other(turn))
                      IN [score |-> r.score, move |-> r.move]
    /\ turn' = other(turn)
    /\ UNCHANGED <<symbols, human_starts, game_over, scores, difficulty, pending,
                   maximizing, depth, alpha, beta, deepest, pc, level>>

NextSim == sim_move

SpecSim == InitSim /\ [][NextSim]_vars

\* what every sim_move does to the turn: while the game has not ended the
\* move passes to the other side
sim_turn ==
    /\ pc = "sim"
    /\ check_winner(board) = None
    /\ turn' = other(turn)

\* the simulation loop runs until the game has ended
FairSpecSim == SpecSim /\ WF_turn(sim_turn)

\* --------------------------------------------------- one call of minimax
empty_count(b) == Cardinality({i \in cells : b[i] = None})

\* [A,A,_, B,B,_, _,_,_] with A = O, the maximizer's mark below, and B = X
ThreatBoard == [i \in cells |-> IF i \in {0, 1} THEN "O"
                                 ELSE IF i \in {3, 4} THEN "X" ELSE None]

SearchBoards ==
    {b \in [cells -> {None, "X", "O"}] : empty_count(b) <= MaxEmpty}
        \cup {ThreatBoard}

\* absent, and the limits a board of SearchBoards can still reach
Depths == {NoDepth} \cup 0..(MaxEmpty - 1)

\* the default window, and a narrow one as a recursive call receives it
Windows == {<<-Inf, Inf>>, <<-1, 1>>}

\* SearchBoards is closed under exchanging the two marks, so the call is
\* made with the marks as __init__ assigns them.
InitSearch ==
    /\ board \in SearchBoards
    /\ ai_symbol = "O"
    /\ player_symbol = "X"
    /\ human_starts = TRUE
    /\ game_over = FALSE
    /\ human_score = 0
    /\ ai_score = 0
    /\ draws = 0
    /\ difficulty = "Hard"
    /\ pending = 0
    /\ maximizing \in BOOLEAN
    /\ depth \in Depths
    /\ \E w \in Windows : alpha = w[1] /\ beta = w[2]
    /\ result = NoResult
    /\ deepest = 0
    /\ pc = "call"
    /\ NoSim

\* minimax(board, maximizing, ai, human, depth, alpha, beta) runs to its
\* return; board is the list it was handed, as it leaves it
call_minimax ==
    /\ pc = "call"
    /\ LET r == minimax(board, maximizing, ai_symbol, player_symbol, depth, alpha, beta)
       IN /\ result' = [score |-> r.score, move |-> r.move]
          /\ board' = r.board
          /\ deepest' = r.deep
    /\ pc' = "done"
    /\ UNCHANGED <<symbols, human_starts, game_over, scores, difficulty, pending,
                   maximizing, depth, alpha, beta, sim_vars>>

NextSearch == call_minimax

SpecSearch == InitSearch /\ [][NextSearch]_vars

\* ---------------------------------------------- one call of evaluate_board
\* every list of nine cells, with either mark as the maximizer's
InitEval ==
    /\ board \in [cells -> {None, "X", "O"}]
    /\ ai_symbol \in marks
    /\ player_symbol = other(ai_symbol)
    /\ human_starts = TRUE
    /\ game_over = FALSE
    /\ human_score = 0
    /\ ai_score = 0
    /\ draws = 0
    /\ difficulty = "Hard"
    /\ pending = 0
    /\ NoCall
    /\ pc = "eval"
    /\ NoSim

\* evaluate_board(board, ai, human) returns its score
call_evaluate_board ==
    /\ pc = "eval"
    /\ result' = [score |-> evaluate_board(board, ai_symbol, player_symbol),
                  move |-> NoMove]
    /\ pc' = "evaluated"
    /\ UNCHANGED <<app_vars, maximizing, depth, alpha, beta, deepest, sim_vars>>

NextEval == call_evaluate_board

SpecEval == InitEval /\ [][NextEval]_vars

\* ================================================================ claims
\* The search of minimax with both `if beta <= alpha: break` removed: every
\* move of every node is searched. A reference for the claims, written
\* without the operators the pruned search is built from.
RECURSIVE exhaustive(_, _, _, _, _)
RECURSIVE exhaustive_loop(_, _, _, _, _, _, _, _)

exhaustive(b, maxi, ai, human, d) ==
    LET winner == check_winner(b) IN
    IF winner = ai THEN [score |-> 10, move |-> NoMove]
    ELSE IF winner = human THEN [score |-> -10, move |-> NoMove]
    ELSE IF winner = "Draw" THEN [score |-> 0, move |-> NoMove]
    ELSE IF d # NoDepth /\ d <= 0
         THEN [score |-> evaluate_board(b, ai, human), move |-> NoMove]
    ELSE exhaustive_loop(b, available_moves(b), maxi, ai, human, d,
                         IF maxi THEN -1000 ELSE 1000, NoMove)

exhaustive_loop(b, moves, maxi, ai, human, d, best_score, best_move) ==
    IF moves = <<>> THEN [score |-> best_score, move |-> best_move]
    ELSE LET mv == Head(moves)
             r == exhaustive([b EXCEPT ![mv] = IF maxi THEN ai ELSE human],
                             ~maxi, ai, human,
                             IF d = NoDepth THEN NoDepth ELSE d - 1)
             better == IF maxi THEN r.score > best_score ELSE r.score < best_score
         IN exhaustive_loop(b, Tail(moves), maxi, ai, human, d,
                            IF better THEN r.score ELSE best_score,
                            IF better THEN mv ELSE best_move)

\* the exact value of board b with the given side to move
value(b, maxi, ai, human, d) == exhaustive(b, maxi, ai, human, d).score

place(b, i, m) == [b EXCEPT ![i] = m]
full_window == alpha = -Inf /\ beta = Inf
non_terminal(b) == check_winner(b) = None

\* line k of WIN_LINES holds three marks m
line_of(b, k, m) == \A j \in 1..3 : b[WIN_LINES[k][j]] = m
has_line(b, m) == \E k \in 1..Len(WIN_LINES) : line_of(b, k, m)

\* C1 (SpecAlt): in a game played turn by turn from the empty board against
\* the Hard engine, whoever moves first and whatever the human plays, no
\* board ever holds three human marks on a line, and a finished game is an
\* AI win or a draw.
C1_HardNeverLoses ==
    /\ ~has_line(board, player_symbol)
    /\ game_over => check_winner(board) \in {ai_symbol, "Draw"}

\* the AI moved first and the human held it to a draw
C1_Witness ==
    /\ game_over
    /\ ~human_starts
    /\ check_winner(board) = "Draw"

C8_OneWinningMark ==
    /\ ~(has_line(board, "X") /\ has_line(board, "O"))
    /\ \A k \in 1..Len(WIN_LINES) : \A m \in marks :
            line_of(board, k, m) => check_winner(board) = m

\* a game won with two complete lines at once
C8_Witness ==
    \E k1, k2 \in 1..Len(WIN_LINES) : \E m \in marks :
        k1 # k2 /\ line_of(board, k1, m) /\ line_of(board, k2, m)

\* C3 (SpecSearch): a call of minimax with alpha = -infinity and
\* beta = +infinity, on any board, with either side to move and any depth
\* limit, returns the (score, move) pair of the search without the cutoff.
C3_PruningKeepsResult ==
    (pc = "done" /\ full_window)
        => result = exhaustive(board, maximizing, ai_symbol, player_symbol, depth)

\* The maximizer's second move is answered by a reply worth no more than
\* its first move, while a further reply is left: the cutoff skips it.
C3_Witness ==
    /\ pc = "done" /\ full_window /\ maximizing /\ depth = NoDepth
    /\ non_terminal(board)
    /\ empty_count(board) = 3
    /\ LET moves == available_moves(board)
           b1 == place(board, moves[1], ai_symbol)
           b2 == place(board, moves[2], ai_symbol)
           reply == available_moves(b2)[1]
       IN /\ non_terminal(b1)
          /\ non_terminal(b2)
          /\ value(place(b2, reply, player_symbol), TRUE, ai_symbol, player_symbol, NoDepth)
                <= value(b1, FALSE, ai_symbol, player_symbol, NoDepth)

\* C6 (SpecSearch): when minimax returns, whatever the board, the side to
\* move, the depth limit and the window, the board is cell for cell the
\* board it was called with.
C6_BoardRestored ==
    [][(pc = "call" /\ pc' = "done") => board' = board]_vars

\* a call that left its loop through the cutoff: the maximizer reached beta
\* at a move that is not the last one
C6_Witness ==
    /\ pc = "done" /\ maximizing /\ ~full_window
    /\ non_terminal(board)
    /\ result.move # NoMove
    /\ result.score >= beta
    /\ \E i \in cells : i > result.move /\ board[i] = None

\* C7 as claimed (SpecSearch): minimax returns an absent move only on a
\* board check_winner classifies as terminal, and a move on every other.
C7_NoMoveOnlyAtTerminal ==
    pc = "done" => (result.move = NoMove <=> ~non_terminal(board))

\* C7 as amended (SpecSearch): minimax returns an absent move exactly when
\* the board is terminal or the depth limit is present and not above 0.
C7_NoMoveIffTerminalOrDepthSpent ==
    pc = "done"
        => (result.move = NoMove
                <=> (~non_terminal(board) \/ (depth # NoDepth /\ depth <= 0)))

\* a non-terminal board searched with depth limit 0: no move comes back
C7_Witness ==
    /\ pc = "done"
    /\ depth = 0
    /\ non_terminal(board)
    /\ result.move = NoMove

\* some empty cell completes a line of mark m
can_win_now(b, m) ==
    \E i \in cells : b[i] = None /\ has_line(place(b, i, m), m)

\* C10 (SpecSearch): unbounded-depth minimax, maximizer to move on a
\* non-terminal board where some empty cell completes one of its lines,
\* returns +10; on [A,A,_, B,B,_, _,_,_] it returns (+10, move 2).
C10_ImmediateWinFound ==
    (pc = "done" /\ full_window /\ maximizing /\ depth = NoDepth
        /\ non_terminal(board) /\ can_win_now(board, ai_symbol))
        => /\ result.score = 10
           /\ board = ThreatBoard => result = [score |-> 10, move |-> 2]

\* the scenario board has been searched
C10_Witness ==
    /\ pc = "done" /\ full_window /\ maximizing /\ depth = NoDepth
    /\ board = ThreatBoard
    /\ result.move = 2

both_hard == level = [m \in marks |-> "Hard"]

\* C4 (FairSpecSim): when both sides choose every move with unbounded-depth
\* minimax, each maximizing for its own mark, alternating from the empty
\* board, no side ever gets three in a row and the game ends in a state
\* where check_winner returns "Draw".
C4_SelfPlayEndsInDraw ==
    /\ [](both_hard => check_winner(board) \in {None, "Draw"})
    /\ (both_hard ~> check_winner(board) = "Draw")

\* a game between two unbounded searches that has ended
C4_Witness ==
    /\ both_hard
    /\ empty_count(board) = 0
    /\ check_winner(board) = "Draw"

\* the side that placed the only mark on the board chose it with the
\* unbounded search
hard_opening ==
    /\ pc = "sim"
    /\ empty_count(board) = 8
    /\ mark_count(board, other(turn)) = 1
    /\ level[other(turn)] = "Hard"

\* C5 (SpecSim): unbounded-depth minimax as maximizer on the empty board
\* returns score 0 and a move m, and the board with the maximizer's mark at
\* m, searched to unbounded depth with the minimizer to move, has value 0.
C5_EmptyBoardValueZero ==
    hard_opening
        => /\ result.score = 0
           /\ result.move \in cells
           /\ board = place(EmptyBoard, result.move, other(turn))
           /\ minimax(board, FALSE, other(turn), turn, NoDepth, -Inf, Inf).score
                = result.score

\* the opening move of an unbounded search is on the board
C5_Witness ==
    /\ hard_opening
    /\ result.move # NoMove
    /\ board[result.move] = other(turn)

\* C9 as claimed (SpecSim): on every non-terminal board reached by
\* alternating play from the empty board, for either assignment of
\* maximizer and minimizer, -10 < evaluate_board(board, ai, human) < 10.
C9_HeuristicBelowWinValue ==
    (pc = "sim" /\ non_terminal(board))
        => \A m \in marks :
              /\ -10 < evaluate_board(board, m, other(m))
              /\ evaluate_board(board, m, other(m)) < 10

\* the lines holding exactly two marks m and one empty cell
threats(b, m) ==
    {k \in 1..8 : /\ Cardinality({j \in 1..3 : b[WIN_LINES[k][j]] = m}) = 2
                  /\ \E j \in 1..3 : b[WIN_LINES[k][j]] = None}

centre(b, M, m) == IF b[4] = M THEN 1 ELSE IF b[4] = m THEN -1 ELSE 0

\* [A,_,_, _,B,_, _,_,_] with maximizer A = M
CentreBoard(M) == [i \in cells |-> IF i = 0 THEN M
                                   ELSE IF i = 4 THEN other(M) ELSE None]

\* C11 (SpecEval): for every board, evaluate_board(board, M, m) is
\* c + 3*(tM - tm), c the centre term (+1, -1, 0), tM and tm the numbers of
\* lines with exactly two marks of M, of m, and one empty cell; on
\* [A,_,_, _,B,_, _,_,_] with maximizer A it is -1.
C11_HeuristicIsAdditive ==
    pc = "evaluated"
        => /\ result.score
                = centre(board, ai_symbol, player_symbol)
                    + 3 * (Cardinality(threats(board, ai_symbol))
                            - Cardinality(threats(board, player_symbol)))
           /\ board = CentreBoard(ai_symbol) => result.score = -1

\* a board with the centre taken and threats of both marks has been scored
C11_Witness ==
    /\ pc = "evaluated"
    /\ board[4] = ai_symbol
    /\ Cardinality(threats(board, ai_symbol)) >= 2
    /\ Cardinality(threats(board, player_symbol)) >= 1

\* the empty cells of b whose exact value, with the mover's mark placed
\* there and the rest of depth limit d left, is score
moves_worth(b, maxi, d, score) ==
    {i \in cells :
        /\ b[i] = None
        /\ value(place(b, i, IF maxi THEN ai_symbol ELSE player_symbol),
                 ~maxi, ai_symbol, player_symbol,
                 IF d = NoDepth THEN NoDepth ELSE d - 1) = score}

root_call == pc = "done" /\ full_window /\ non_terminal(board)
                /\ (depth = NoDepth \/ depth > 0)

\* C12 (SpecSearch): on a non-terminal board, with depth limit absent or
\* above zero and the full window, the move minimax returns is the
\* lowest-index empty cell among those whose exact value to that depth
\* equals the returned score.
C12_TieKeepsLowestIndex ==
    root_call
        => LET best == moves_worth(board, maximizing, depth, result.score)
           IN /\ result.move \in best
              /\ \A i \in best : result.move <= i

\* several moves tie for the returned score, and a lower empty cell is
\* worth something else
C12_Witness ==
    /\ root_call
    /\ LET best == moves_worth(board, maximizing, depth, result.score)
       IN /\ Cardinality(best) >= 2
          /\ result.move \in best
          /\ \E i \in cells : i < result.move /\ board[i] = None

\* a scheduled ai_move, fired now, gets past `if self.game_over` and
\* `if not moves` and calls minimax
ai_move_searches ==
    /\ pending > 0
    /\ ~game_over
    /\ available_moves(board) # <<>>
    /\ difficulty \in {"Medium", "Hard"}

C14_MarksDifferByAtMostOne ==
    LET h == mark_count(board, player_symbol)
        a == mark_count(board, ai_symbol)
    IN h - a <= 1 /\ a - h <= 1

\* C15 as claimed (Spec): an ai_move callback scheduled before a
\* reset_board places no mark on the board that reset creates: with
\* human_starts true the first mark on the board is the human's, with
\* human_starts false exactly one AI mark precedes the human's first mark.
C15_ResetDiscardsCallbacks ==
    LET h == mark_count(board, player_symbol)
        a == mark_count(board, ai_symbol)
    IN /\ human_starts => ~(h = 0 /\ a >= 1)
       /\ ~human_starts => ~(h = 0 /\ a >= 2)
       /\ ~human_starts => ~(a = 0 /\ h >= 1)

\* 1 when winner is who, else 0
credit(winner, who) == IF winner = who THEN 1 ELSE 0

\* C16 (Spec): between two reset_board calls finish_game runs at most once;
\* each run adds exactly 1 to exactly one of human_score, ai_score, draws,
\* the one matching check_winner on the final board; nothing else changes
\* the counters except reset_scores, which sets all three to 0.
C16_OneResultPerGame ==
    [][/\ (~game_over /\ game_over')
            => LET winner == check_winner(board')
               IN /\ winner # None
                  /\ human_score' = human_score + credit(winner, player_symbol)
                  /\ ai_score' = ai_score + credit(winner, ai_symbol)
                  /\ draws' = draws + credit(winner, "Draw")
       /\ (scores' # scores)
            => \/ ~game_over /\ game_over'
               \/ scores' = <<0, 0, 0>> /\ UNCHANGED <<board, game_over>>
       /\ (game_over /\ ~game_over') => board' = EmptyBoard]_vars

\* a game the human won has been counted
C16_Witness ==
    /\ game_over
    /\ has_line(board, player_symbol)
    /\ scores = <<1, 0, 0>>

\* C17 (Spec): once game_over is true, every on_click and every ai_move
\* callback, one scheduled before the game ended included, leaves board,
\* game_over and the three counters unchanged, until the next reset_board.
C17_NothingMovesAfterGameOver ==
    [][game_over
        => /\ pending' < pending => UNCHANGED <<board, game_over, scores>>
           /\ board' # board => board' = EmptyBoard /\ ~game_over'
           /\ ~game_over' => board' = EmptyBoard]_vars

\* the game is over with an empty cell left and a callback still to fire
C17_Witness ==
    /\ game_over
    /\ pending > 0
    /\ empty_count(board) > 0

unbounded_call == pc = "done" /\ depth = NoDepth

\* C18 (SpecSearch): for every board, either side to move and any window,
\* minimax without depth limit returns a result, a score among -10, 0, 10;
\* each recursive call works on a board with one empty cell fewer, so the
\* calls active at once never exceed the empty cells of the initial board,
\* whether a cutoff happens or not.
C18_RecursionBoundedByEmptyCells ==
    unbounded_call
        => /\ deepest <= empty_count(board)
           /\ deepest <= 9
           /\ result.score \in {-10, 0, 10}
           /\ non_terminal(board) => deepest >= 1

\* a search that went all the way down to a full board
C18_Witness ==
    /\ unbounded_call
    /\ empty_count(board) = 3
    /\ deepest = 3

\* C19 (FairSpecGame): in a game with no reset, where the human goes on
\* clicking empty cells while the game is open and every scheduled ai_move
\* fires, game_over becomes true, on a board check_winner classifies as
\* won or 'Draw', and stays so.
C19_GameEnds ==
    <>[](game_over /\ check_winner(board) # None)

\* a game of clicks and callbacks that ended with the AI completing a line
C19_Witness ==
    /\ game_over
    /\ has_line(board, ai_symbol)
    /\ pending = 0
    /\ scores = <<0, 1, 0>>
====
